---------------------------- MODULE Spec2Model ----------------------------
(***************************************************************************)
(* The coprocessor executor pipeline of tikv/executor.go: tableScanExec /  *)
(* indexScanExec (leaves), selectionExec, topNExec and limitExec, driven   *)
(* by repeated Next() calls of one caller.                                 *)
(*                                                                         *)
(* Keys are byte strings (sequences over 0..255).  A nil key and a nil row *)
(* are written Nil (the empty sequence); every key of the model is         *)
(* non-empty, so nil and "empty but non-nil" never have to be told apart.  *)
(* A row returned by a scan is identified with the key it was decoded      *)
(* from; its column values are ColVal(key, offset).                        *)
(***************************************************************************)
EXTENDS Integers, Sequences, FiniteSets, TLC

VARIABLES
    cfg,        \* construction-time fields of the executors and the snapshot
    scan,       \* mutable fields of tableScanExec / indexScanExec
    lim,        \* mutable fields of limitExec
    topn,       \* mutable fields of topNExec
    locked,     \* indices of kvRanges for which CheckRangeLock reports a lock
    panicked,   \* a Go runtime panic ended the request
    ret,        \* what the last root Next() returned
    out,        \* rows returned by the root Next() so far, in order
    hist,       \* facts about the calls made so far
    cancelled,  \* the context passed to Next() has been cancelled
    pp          \* a call of prefixPrev: the caller's key, before and after, and the result

vars == <<cfg, scan, lim, topn, locked, panicked, ret, out, hist, cancelled, pp>>

----------------------------------------------------------------------------
(* Bounds of the model and program constants *)

scanLimit == 128

\* number of handles the small stores are drawn from
MaxHandles == 3
\* first handle of the small stores: they straddle a byte carry (.., 255 | 1, 0 ..)
BaseHandle == 254
\* largest limit / top-N size tried
MaxLimit == 3
\* rows a history may record before the caller stops calling Next()
MaxOut == 270
\* longest key handed to prefixPrev on its own
MaxKeyLen == 3
\* the byte values those keys are made of
ByteSamples == {0, 1, 2, 127, 254, 255}

tablePrefix == 116

Nil == <<>>
NoErr == "ok"
ErrLocked == "Locked"
ErrStorage == "Storage"
ErrDecode == "MissingColumn"
\* the error the interface names for a cancelled context; executor.go never
\* reads ctx, so no operator returns it
ErrCancelled == "Cancelled"

----------------------------------------------------------------------------
(* Keys *)

Min(a, b) == IF a <= b THEN a ELSE b

\* bytes.Compare(a, b) < 0
KeyLess(a, b) ==
    \E i \in 1..(Min(Len(a), Len(b)) + 1) :
        /\ \A j \in 1..(i - 1) : a[j] = b[j]
        /\ \/ i > Len(a) /\ i <= Len(b)
           \/ i <= Len(a) /\ i <= Len(b) /\ a[i] < b[i]

KeyLE(a, b) == a = b \/ KeyLess(a, b)

\* the record key of a handle: tablePrefix, then the handle big-endian in two bytes
RowKey(h) == <<tablePrefix, h \div 256, h % 256>>

\* kv.Key.PrefixNext: increment the last byte with carry; a key of 0xff bytes
\* only gets a zero byte appended
RECURSIVE IncFrom(_, _)
IncFrom(k, i) ==
    IF i = 0 THEN Nil
    ELSE IF k[i] = 255 THEN IncFrom([k EXCEPT ![i] = 0], i - 1)
    ELSE [k EXCEPT ![i] = k[i] + 1]

PrefixNext(k) ==
    LET r == IncFrom(k, Len(k)) IN IF r = Nil THEN Append(k, 0) ELSE r

\* prefixPrev: buf[i]-- from the right while the byte wraps to 255; nil when
\* every byte wrapped
RECURSIVE DecFrom(_, _)
DecFrom(buf, i) ==
    IF i = 0 THEN Nil
    ELSE IF (buf[i] - 1) % 256 # 255 THEN [buf EXCEPT ![i] = (buf[i] - 1) % 256]
    ELSE DecFrom([buf EXCEPT ![i] = 255], i - 1)

\* mutant: the last byte is decremented without a borrow, never nil
prefixPrevNoBorrow(k) ==
    IF Len(k) = 0 THEN k ELSE [k EXCEPT ![Len(k)] = (k[Len(k)] - 1) % 256]

prefixPrev(k) == DecFrom(k, Len(k))

\* a call prefixPrev(k) as the caller sees it: buf is a copy and the only
\* slice written, so the caller's k is as before
prefixPrevCall(k) == [arg |-> k, res |-> prefixPrev(k)]

\* kv.KeyRange.IsPoint
IsPoint(ran) == PrefixNext(ran.StartKey) = ran.EndKey

Reverse(s) == [i \in 1..Len(s) |-> s[Len(s) + 1 - i]]

Take(s, n) == SubSeq(s, 1, Min(n, Len(s)))

IsPrefixOf(s, t) == Len(s) <= Len(t) /\ SubSeq(t, 1, Len(s)) = s

----------------------------------------------------------------------------
(* The fields fixed at construction *)

kvRanges == cfg.kvRanges
Desc == cfg.Desc
ignoreLock == cfg.ignoreLock

\* indexScanExec.isUnique
isUnique == cfg.unique

----------------------------------------------------------------------------
(* The DB reader: a snapshot of the store, a sorted sequence of keys *)

InRange(k, lo, hi) == KeyLE(lo, k) /\ KeyLess(k, hi)

\* keys of [startKey, endKey) in ascending order, at most limit of them
ScanKeys(startKey, endKey, limit) ==
    LET Test(k) == InRange(k, startKey, endKey)
    IN  Take(SelectSeq(cfg.store, Test), limit)

\* keys of [startKey, endKey) in descending order, at most limit of them
ReverseScanKeys(startKey, endKey, limit) ==
    LET Test(k) == InRange(k, startKey, endKey)
    IN  Take(Reverse(SelectSeq(cfg.store, Test)), limit)

\* Get: whether a value is stored under key
GetHit(key) == \E i \in 1..Len(cfg.store) : cfg.store[i] = key

\* a reader call that starts at key fails with a storage error
ReaderFails(key) == key \in cfg.ioErr

\* getRowData (and decodeRowKey / decodeIndexKV) fails for this pair
DecodeFails(key) == key \in cfg.bad


----------------------------------------------------------------------------
(* tableScanExec / indexScanExec.  The two leaves run the same code; they  *)
(* differ in when a range is read as a point and in Counts().              *)

\* the range at rangeCursor is read with one Get
UsesPointPath(ran) ==
    IF cfg.leaf = "table" THEN IsPoint(ran) ELSE isUnique /\ IsPoint(ran)

\* mutant: the cursor moves two ranges on
nextRangeSkips(e) == [e EXCEPT !.rangeCursor = e.rangeCursor + 2, !.seekKey = Nil]

\* e.rangeCursor++ ; e.seekKey = nil
nextRange(e) == [e EXCEPT !.rangeCursor = e.rangeCursor + 1, !.seekKey = Nil]

\* mutant: the forward scan resumes two keys after the last key read
advanceSeekKeySkipsOne(lastKey) ==
    IF Desc THEN prefixPrev(lastKey) ELSE PrefixNext(PrefixNext(lastKey))

\* where the next batch of the range starts, given the last key read
advanceSeekKey(lastKey) ==
    IF Desc THEN prefixPrev(lastKey) ELSE PrefixNext(lastKey)

\* the indices of the ranges the reader has been called for, in call order
Visit(visited, i) ==
    IF Len(visited) > 0 /\ visited[Len(visited)] = i THEN visited ELSE Append(visited, i)

\* the seek key a range starts with when none is held
initSeekKey(e, ran) ==
    IF e.seekKey = Nil
    THEN (IF Desc THEN ran.EndKey ELSE ran.StartKey)
    ELSE e.seekKey

\* index of the first pair of keys the scan callback fails on, 0 when none
FirstBad(keys) ==
    IF \E i \in 1..Len(keys) : DecodeFails(keys[i])
    THEN CHOOSE i \in 1..Len(keys) :
            /\ DecodeFails(keys[i])
            /\ \A j \in 1..(i - 1) : ~DecodeFails(keys[j])
    ELSE 0

fillRowsFromPoint(e, ran) ==
    LET e1 == [e EXCEPT !.io = TRUE, !.visited = Visit(e.visited, e.rangeCursor),
                        !.getAt = e.getAt \cup {e.rangeCursor}] IN
    IF ReaderFails(ran.StartKey) THEN [e |-> e1, err |-> ErrStorage]
    ELSE IF ~GetHit(ran.StartKey) THEN [e |-> e1, err |-> NoErr]
    ELSE IF DecodeFails(ran.StartKey) THEN [e |-> e1, err |-> ErrDecode]
    ELSE [e |-> [e1 EXCEPT !.rows = Append(e1.rows, ran.StartKey)], err |-> NoErr]

fillRowsFromRange(e, ran) ==
    LET Scanned(e1, keys, bad) ==
            IF ReaderFails(e1.seekKey) THEN [e |-> e1, err |-> ErrStorage]
            ELSE IF bad > 0
            THEN [e |-> [e1 EXCEPT !.rows = e1.rows \o SubSeq(keys, 1, bad - 1)],
                  err |-> ErrDecode]
            ELSE IF keys = <<>> THEN [e |-> e1, err |-> NoErr]
            ELSE [e |-> [e1 EXCEPT !.rows = e1.rows \o keys,
                                   !.seekKey = advanceSeekKey(keys[Len(keys)])],
                  err |-> NoErr]
        Callback(e1, keys) == Scanned(e1, keys, FirstBad(keys))
        From(seek) ==
            Callback([e EXCEPT !.seekKey = seek, !.io = TRUE,
                               !.visited = Visit(e.visited, e.rangeCursor),
                               !.scanAt = e.scanAt \cup {e.rangeCursor}],
                     IF Desc THEN ReverseScanKeys(ran.StartKey, seek, scanLimit)
                     ELSE ScanKeys(seek, ran.EndKey, scanLimit))
    IN  From(initSeekKey(e, ran))

\* mutant: the scan moves to the next range after every read of a range
fillRowsStepAlwaysAdvances(e) ==
    LET Moved(r) == [e |-> nextRange(r.e), err |-> r.err]
        Read(ran) == IF UsesPointPath(ran) THEN Moved(fillRowsFromPoint(e, ran))
                     ELSE Moved(fillRowsFromRange(e, ran))
    IN  Read(kvRanges[e.rangeCursor + 1])

\* one pass of the loop body of fillRows: read the range at rangeCursor
fillRowsStep(e) ==
    LET Point(r) == [e |-> nextRange(r.e), err |-> r.err]
        Ranged(r) == [e |-> IF Len(r.e.rows) = 0 THEN nextRange(r.e) ELSE r.e,
                      err |-> r.err]
        Read(ran) == IF UsesPointPath(ran) THEN Point(fillRowsFromPoint(e, ran))
                     ELSE Ranged(fillRowsFromRange(e, ran))
    IN  Read(kvRanges[e.rangeCursor + 1])

\* mutant: fillRows returns after one range, even when it held no row
fillRowsOneRange(e0) ==
    IF e0.rangeCursor < Len(kvRanges) THEN fillRowsStep(e0)
    ELSE [e |-> e0, err |-> NoErr]

\* fillRows: read range after range until a read fails, the buffer holds a
\* row, or no range is left.  A pass that does not end the loop moves
\* rangeCursor on, so Len(kvRanges) passes always suffice; pass[i] is the
\* state after at most i of them.
fillRows(e0) ==
    LET Stepped(r) == [e |-> r.e, err |-> r.err,
                       done |-> r.err # NoErr \/ Len(r.e.rows) > 0]
        Pass(prev) == IF prev.done \/ prev.e.rangeCursor >= Len(kvRanges) THEN prev
                      ELSE Stepped(fillRowsStep(prev.e))
        pass[i \in 0..Len(kvRanges)] ==
            IF i = 0 THEN [e |-> e0, err |-> NoErr, done |-> FALSE]
            ELSE Pass(pass[i - 1])
        Result(last) == [e |-> last.e, err |-> last.err]
    IN  Result(pass[Len(kvRanges)])

refill(e) == fillRows([e EXCEPT !.rowCursor = 0, !.rows = <<>>])

\* mutant: the lock pass counts as done even when it found a lock
checkRangeLockMarksChecked(e) ==
    IF ~ignoreLock /\ ~e.lockChecked
    THEN [e |-> [e EXCEPT !.lockChecked = TRUE,
                          !.lockPasses = IF e.lockPasses < 2 THEN e.lockPasses + 1 ELSE 2,
                          !.lockOk = IF locked = {} /\ e.lockOk < 2
                                     THEN e.lockOk + 1 ELSE e.lockOk,
                          !.passRan = TRUE],
          err |-> IF locked # {} THEN ErrLocked ELSE NoErr]
    ELSE [e |-> [e EXCEPT !.passRan = FALSE], err |-> NoErr]

\* mutant: a pass that found no lock is not remembered
checkRangeLockForgets(e) ==
    IF ~ignoreLock /\ ~e.lockChecked
    THEN [e |-> [e EXCEPT !.lockPasses = IF e.lockPasses < 2 THEN e.lockPasses + 1 ELSE 2,
                          !.lockOk = IF locked = {} /\ e.lockOk < 2
                                     THEN e.lockOk + 1 ELSE e.lockOk,
                          !.passRan = TRUE],
          err |-> IF locked # {} THEN ErrLocked ELSE NoErr]
    ELSE [e |-> [e EXCEPT !.passRan = FALSE], err |-> NoErr]

\* the error of the first locked range, NoErr when none is locked
CheckRangeLockErr == IF locked # {} THEN ErrLocked ELSE NoErr

\* lockPasses / lockOk count the passes run / run without finding a lock
\* (both stop counting at 2); passRan tells whether this call ran the pass
checkRangeLock(e) ==
    IF ~ignoreLock /\ ~e.lockChecked
    THEN IF CheckRangeLockErr # NoErr
         THEN [e |-> [e EXCEPT !.lockPasses = Min(e.lockPasses + 1, 2),
                               !.passRan = TRUE],
               err |-> CheckRangeLockErr]
         ELSE [e |-> [e EXCEPT !.lockChecked = TRUE,
                               !.lockPasses = Min(e.lockPasses + 1, 2),
                               !.lockOk = Min(e.lockOk + 1, 2),
                               !.passRan = TRUE],
               err |-> NoErr]
    ELSE [e |-> [e EXCEPT !.passRan = FALSE], err |-> NoErr]

\* getOneRow on a buffer known to hold an unread row
getOneRow(e) ==
    [e |-> [e EXCEPT !.rowCursor = e.rowCursor + 1],
     row |-> e.rows[e.rowCursor + 1], err |-> NoErr]

\* the for loop of Next: a row of the buffer, else refill and look again
scanLoop(e) ==
    LET Refilled(r) ==
            IF r.err # NoErr THEN [e |-> r.e, row |-> Nil, err |-> r.err]
            ELSE IF Len(r.e.rows) = 0 THEN [e |-> r.e, row |-> Nil, err |-> NoErr]
            ELSE getOneRow(r.e)
    IN  IF e.rowCursor < Len(e.rows) THEN getOneRow(e) ELSE Refilled(refill(e))

scanNext(e) ==
    LET Checked(c) == IF c.err # NoErr THEN [e |-> c.e, row |-> Nil, err |-> c.err]
                      ELSE scanLoop(c.e)
    IN  Checked(checkRangeLock(e))

\* Cursor(): the key the scan reads next; "panic" for an index out of range
scanCursor(e) ==
    IF Len(e.seekKey) > 0 THEN e.seekKey
    ELSE IF e.rangeCursor < Len(kvRanges)
    THEN LET ran == kvRanges[e.rangeCursor + 1] IN
         IF UsesPointPath(ran) THEN ran.StartKey
         ELSE IF Desc THEN ran.EndKey ELSE ran.StartKey
    ELSE IF Desc THEN kvRanges[Len(kvRanges)].StartKey
    ELSE kvRanges[Len(kvRanges)].EndKey


----------------------------------------------------------------------------
(* Rows and datums.  A datum is an integer; NullDatum is SQL NULL, which   *)
(* sorts below every value.                                                *)

NullDatum == 0 - 1

\* the datum decoded from column offset col of a row
ColVal(row, col) == IF col = 1 THEN cfg.vals[row] ELSE (row[Len(row)] % 2)

\* Datum.ToBool
ToBool(d) == IF d = 0 THEN 0 ELSE 1

\* selectionExec.evalBool over the conditions from position i on
RECURSIVE evalBoolFrom(_, _, _)
evalBoolFrom(exprs, row, i) ==
    IF i > Len(exprs) THEN TRUE
    ELSE LET data == ColVal(row, exprs[i]) IN
         IF data = NullDatum THEN FALSE
         ELSE IF ToBool(data) = 0 THEN FALSE
         ELSE evalBoolFrom(exprs, row, i + 1)

\* mutant: a NULL result is not rejected
evalBoolNullPasses(exprs, row) ==
    \A i \in 1..Len(exprs) : ToBool(ColVal(row, exprs[i])) # 0

evalBool(exprs, row) == evalBoolFrom(exprs, row, 1)

----------------------------------------------------------------------------
(* topNHeap: a bounded heap whose root is the worst row kept *)

\* the ordering key of a row: its first order-by expression
SortKey(row) == ColVal(row, 1)

\* topNSorter.Less on two rows: CompareDatum, inverted for a descending item
SorterLess(a, b) ==
    IF cfg.orderDesc THEN SortKey(a) > SortKey(b) ELSE SortKey(a) < SortKey(b)

\* topNHeap.Less: the sorter's order reversed
HeapLess(a, b) == SorterLess(b, a)

Swap(rows, i, j) == [rows EXCEPT ![i] = rows[j], ![j] = rows[i]]

\* container/heap up(j), positions counted from 1
RECURSIVE HeapUp(_, _)
HeapUp(rows, j) ==
    LET i == j \div 2 IN
    IF i = 0 \/ ~HeapLess(rows[j], rows[i]) THEN rows
    ELSE HeapUp(Swap(rows, i, j), i)

\* container/heap down(i, n), positions counted from 1
RECURSIVE HeapDown(_, _, _)
HeapDown(rows, i, n) ==
    LET j1 == 2 * i IN
    IF j1 > n THEN rows
    ELSE LET j == IF j1 + 1 <= n /\ HeapLess(rows[j1 + 1], rows[j1])
                  THEN j1 + 1 ELSE j1
         IN  IF ~HeapLess(rows[j], rows[i]) THEN rows
             ELSE HeapDown(Swap(rows, i, j), j, n)

\* topNHeap.tryToAddRow with totalCount = cfg.topK; heap is the kept rows
tryToAddRow(heap, row) ==
    LET n == Len(heap) IN
    IF n = cfg.topK
    THEN LET rows == Append(heap, row) IN
         IF HeapLess(rows[1], rows[n + 1])
         THEN SubSeq(HeapDown(Swap(rows, 1, n + 1), 1, n), 1, n)
         ELSE heap
    ELSE HeapUp(Append(heap, row), n + 1)

\* sort.Sort on fewer than 12 rows is an insertion sort with the sorter's Less
RECURSIVE InsertLeft(_, _)
InsertLeft(rows, j) ==
    IF j > 1 /\ SorterLess(rows[j], rows[j - 1])
    THEN InsertLeft(Swap(rows, j, j - 1), j - 1)
    ELSE rows

RECURSIVE SortFrom(_, _)
SortFrom(rows, i) ==
    IF i > Len(rows) THEN rows ELSE SortFrom(InsertLeft(rows, i), i + 1)

sortRows(rows) == SortFrom(rows, 2)

----------------------------------------------------------------------------
(* The pipeline: cfg.chain lists the executors from the root to the leaf:  *)
(* an optional limit or top-N, over an optional selection, over the scan.  *)
(* p holds the mutable fields of all of them.                              *)

\* the chain holds an executor of this kind
Has(chain, kind) == \E i \in 1..Len(chain) : chain[i] = kind

\* mutant: the limit test is off by one
limitReachedOffByOne(l) == l.cursor > cfg.limit

\* limitExec.Next's test before it pulls from its source
limitReached(l) == l.cursor >= cfg.limit

\* Next() of the leaf, on the pipeline's fields
leafNext(p) ==
    LET Lift(r) == [p |-> [p EXCEPT !.scan = r.e], row |-> r.row, err |-> r.err]
    IN  Lift(scanNext(p.scan))

\* selectionExec.Next; its source is the leaf
RECURSIVE selectionNext(_)
selectionNext(p) ==
    LET Pulled(r) ==
            IF r.err # NoErr THEN [p |-> r.p, row |-> Nil, err |-> r.err]
            ELSE IF r.row = Nil THEN [p |-> r.p, row |-> Nil, err |-> NoErr]
            ELSE IF evalBool(cfg.conditions, r.row) THEN r
            ELSE selectionNext(r.p)
    IN  Pulled(leafNext(p))

\* src.Next() of a limitExec or topNExec: the selection when the chain has
\* one, else the leaf
srcNext(p) == IF Has(cfg.chain, "selection") THEN selectionNext(p) ELSE leafNext(p)

limitNext(p) ==
    LET Pulled(r) ==
            IF r.err # NoErr THEN [p |-> r.p, row |-> Nil, err |-> r.err]
            ELSE IF r.row = Nil THEN [p |-> r.p, row |-> Nil, err |-> NoErr]
            ELSE [p |-> [r.p EXCEPT !.lim.cursor = r.p.lim.cursor + 1],
                  row |-> r.row, err |-> NoErr]
    IN  IF limitReached(p.lim) THEN [p |-> p, row |-> Nil, err |-> NoErr]
        ELSE Pulled(srcNext(p))

\* evalTopN: offer the row to the heap
evalTopN(t, value) == [t EXCEPT !.heap = tryToAddRow(t.heap, value)]

\* the loop of topNExec.Next over innerNext, until the source ends or fails
RECURSIVE topNDrain(_)
topNDrain(p) ==
    LET Pulled(r) ==
            IF r.err # NoErr THEN [p |-> r.p, err |-> r.err]
            ELSE IF r.row = Nil THEN [p |-> r.p, err |-> NoErr]
            ELSE topNDrain([r.p EXCEPT !.topn = evalTopN(r.p.topn, r.row)])
    IN  Pulled(srcNext(p))

\* the rest of topNExec.Next once the heap is sorted
topNEmit(p) ==
    IF p.topn.cursor >= Len(p.topn.heap) THEN [p |-> p, row |-> Nil, err |-> NoErr]
    ELSE [p |-> [p EXCEPT !.topn.cursor = p.topn.cursor + 1],
          row |-> p.topn.heap[p.topn.cursor + 1], err |-> NoErr]

\* mutant: the heap is emitted as it stands, without the sort
topNNextUnsorted(p) ==
    LET Drained(d) ==
            IF d.err # NoErr THEN [p |-> d.p, row |-> Nil, err |-> d.err]
            ELSE topNEmit([d.p EXCEPT !.topn.executed = TRUE])
    IN  IF ~p.topn.executed THEN Drained(topNDrain(p)) ELSE topNEmit(p)

topNNext(p) ==
    LET Drained(d) ==
            IF d.err # NoErr THEN [p |-> d.p, row |-> Nil, err |-> d.err]
            ELSE topNEmit([d.p EXCEPT !.topn.heap = sortRows(d.p.topn.heap),
                                      !.topn.executed = TRUE])
    IN  IF ~p.topn.executed THEN Drained(topNDrain(p)) ELSE topNEmit(p)

\* Next() of the root executor, the first of the chain
rootNext(p) ==
    CASE cfg.chain[1] = "selection" -> selectionNext(p)
      [] cfg.chain[1] = "limit" -> limitNext(p)
      [] cfg.chain[1] = "topN" -> topNNext(p)
      [] OTHER -> leafNext(p)

----------------------------------------------------------------------------
(* Counts / ResetCounts of the leaf (the other executors delegate to it) *)

\* the slice bounds of Counts(): <<low, high>> of counts[low:high]
countsBounds(e) ==
    IF cfg.leaf = "table"
    THEN (IF e.seekKey = Nil THEN <<e.start, e.rangeCursor>>
          ELSE <<e.start, e.rangeCursor + 1>>)
    ELSE (IF e.seekKey = Nil \/ e.rangeCursor = Len(e.counts)
          THEN <<e.start, e.rangeCursor>>
          ELSE <<e.start, e.rangeCursor + 1>>)

\* Counts() of a leaf with a counts vector, when the slice is within bounds
Counts(e) == SubSeq(e.counts, countsBounds(e)[1] + 1, countsBounds(e)[2])

RECURSIVE SumFrom(_, _)
SumFrom(s, i) == IF i > Len(s) THEN 0 ELSE s[i] + SumFrom(s, i + 1)

Sum(s) == SumFrom(s, 1)

\* ResetCounts(): e.start = e.rangeCursor ; e.counts[e.start] = 0
resetCounts(e) ==
    [e EXCEPT !.start = e.rangeCursor, !.counts[e.rangeCursor + 1] = 0]

\* the index written by ResetCounts() is out of range
resetCountsPanics(e) == e.rangeCursor >= Len(e.counts)

----------------------------------------------------------------------------
(* Initial states: the requests the model runs *)

\* the stored handles of the small stores
SmallHandles == BaseHandle..(BaseHandle + MaxHandles - 1)

\* a set of handles as a store: its record keys in ascending order
KeysOf(hs, lo, hi) ==
    LET Stored(h) == h \in hs
        kept == SelectSeq([i \in 1..(hi - lo + 1) |-> lo + i - 1], Stored)
    IN  [i \in 1..Len(kept) |-> RowKey(kept[i])]

SmallStores == { KeysOf(hs, BaseHandle, BaseHandle + MaxHandles) : hs \in SUBSET SmallHandles }

FullSmallStore == KeysOf(SmallHandles, BaseHandle, BaseHandle + MaxHandles)

Range(a, b) == [StartKey |-> RowKey(a), EndKey |-> RowKey(b)]

\* the range bounds of the small requests
SmallBounds == BaseHandle..(BaseHandle + MaxHandles)

\* sorted lists of one to three non-overlapping ranges over the small bounds
SmallRangeLists ==
    { <<Range(a, b)>> : a \in SmallBounds, b \in SmallBounds } \cup
    { <<Range(a, b), Range(c, d)>> :
        a \in SmallBounds, b \in SmallBounds, c \in SmallBounds, d \in SmallBounds } \cup
    { <<Range(a, a + 1), Range(a + 1, a + 2), Range(b, BaseHandle + MaxHandles)>> :
        a \in {BaseHandle}, b \in (BaseHandle + 2)..(BaseHandle + MaxHandles - 1) }

RangeListOk(l) ==
    /\ \A i \in 1..Len(l) : KeyLess(l[i].StartKey, l[i].EndKey)
    /\ \A i \in 1..(Len(l) - 1) : KeyLE(l[i].EndKey, l[i + 1].StartKey)

\* the caller hands a descending scan its ranges in reverse order
OrderedForScan(l, desc) == IF desc THEN Reverse(l) ELSE l

\* stores of more rows than one batch: contiguous handles lo..hi
BigStores ==
    { [lo |-> 100, hi |-> 100 + scanLimit + 1],
      [lo |-> 200, hi |-> 200 + scanLimit + 2],
      [lo |-> 0, hi |-> 2 * scanLimit + 1] }

BigRangeLists(b) ==
    { <<Range(b.lo, b.hi + 1)>>,
      <<Range(b.lo, b.hi - 1), Range(b.hi - 1, b.hi), Range(b.hi, b.hi + 5)>>,
      <<Range(b.lo + 1, b.lo + scanLimit + 1), Range(b.lo + scanLimit + 1, b.hi + 1)>> }

Datums == {NullDatum, 0, 1, 2}

KeySet(store) == { store[i] : i \in 1..Len(store) }

Chains ==
    { <<"selection", "scan">>, <<"limit", "scan">>, <<"topN", "scan">>,
      <<"limit", "selection", "scan">>, <<"topN", "selection", "scan">> }

\* a plain, fault-free ascending table scan of the given store and ranges
BaseCfg(store, ranges) ==
    [leaf |-> "table", unique |-> FALSE, Desc |-> FALSE, kvRanges |-> ranges,
     store |-> store, vals |-> [k \in KeySet(store) |-> 1], bad |-> {}, ioErr |-> {},
     ignoreLock |-> FALSE, chain |-> <<"scan">>, limit |-> 0, topK |-> 0,
     orderDesc |-> FALSE, conditions |-> <<1>>]

\* every leaf kind and direction over the small stores and range lists
CfgScan ==
    { [BaseCfg(store, OrderedForScan(l, desc)) EXCEPT
          !.Desc = desc, !.leaf = lf[1], !.unique = lf[2]] :
        store \in SmallStores,
        l \in { x \in SmallRangeLists : RangeListOk(x) },
        desc \in BOOLEAN,
        lf \in { <<"table", FALSE>>, <<"index", TRUE>>, <<"index", FALSE>> } }

\* ranges that hold more rows than one batch
CfgBig ==
    UNION { { [BaseCfg(KeysOf(b.lo..b.hi, b.lo, b.hi), OrderedForScan(l, desc))
                 EXCEPT !.Desc = desc] :
              l \in BigRangeLists(b), desc \in BOOLEAN } : b \in BigStores }

\* one pair the callback cannot decode, or one reader call that fails
CfgFault ==
    { [BaseCfg(FullSmallStore, OrderedForScan(l, desc)) EXCEPT
          !.Desc = desc, !.bad = f[1], !.ioErr = f[2]] :
        l \in { x \in SmallRangeLists : RangeListOk(x) },
        desc \in BOOLEAN,
        f \in { <<{k}, {}>> : k \in KeySet(FullSmallStore) } \cup
              { <<{}, {RowKey(h)}>> : h \in SmallBounds } }

\* executors stacked on an ascending scan of the whole small store
CfgPipe ==
    { [BaseCfg(FullSmallStore, <<Range(BaseHandle, BaseHandle + MaxHandles)>>) EXCEPT
          !.chain = chain, !.vals = vals, !.limit = n[1], !.topK = n[2],
          !.orderDesc = od, !.conditions = conds] :
        chain \in Chains,
        vals \in [KeySet(FullSmallStore) -> Datums],
        n \in { x \in (0..MaxLimit) \X (0..MaxLimit) : x[1] = 0 \/ x[2] = 0 },
        od \in BOOLEAN,
        conds \in { <<1>>, <<1, 2>> } }

\* fields a chain does not read are kept at their defaults
PipeCfgOk(c) ==
    /\ Has(c.chain, "limit") \/ c.limit = 0
    /\ Has(c.chain, "topN") \/ (c.topK = 0 /\ ~c.orderDesc)
    /\ Has(c.chain, "selection") \/ c.conditions = <<1>>
    /\ ~(Has(c.chain, "limit") /\ c.topK # 0)

InitScanExec(c, withCounts) ==
    [rangeCursor |-> 0, rowCursor |-> 0, rows |-> <<>>, seekKey |-> Nil, start |-> 0,
     counts |-> IF withCounts THEN [i \in 1..Len(c.kvRanges) |-> 0] ELSE Nil,
     lockChecked |-> FALSE, lockPasses |-> 0, lockOk |-> 0, passRan |-> FALSE,
     io |-> FALSE, visited |-> <<>>, getAt |-> {}, scanAt |-> {}]

InitRest ==
    /\ lim = [cursor |-> 0]
    /\ topn = [heap |-> <<>>, cursor |-> 0, executed |-> FALSE]
    /\ panicked = FALSE
    /\ ret = [called |-> FALSE, row |-> Nil, err |-> NoErr, ctxDone |-> FALSE]
    /\ out = <<>>
    /\ hist = [nones |-> 0, refillErr |-> FALSE, sinceReset |-> 0, lockErrs |-> 0,
               lockLate |-> FALSE]
    /\ cancelled = FALSE
    /\ pp = [k |-> Nil, arg |-> Nil, res |-> Nil, called |-> FALSE]

\* small scans of every leaf kind, with and without a counts vector
InitScan ==
    /\ cfg \in CfgScan
    /\ \E wc \in BOOLEAN : scan = InitScanExec(cfg, wc)
    /\ locked = {}
    /\ InitRest

InitBig ==
    /\ cfg \in CfgBig
    /\ scan = InitScanExec(cfg, FALSE)
    /\ locked = {}
    /\ InitRest

InitFault ==
    /\ cfg \in CfgFault
    /\ scan = InitScanExec(cfg, FALSE)
    /\ locked = {}
    /\ InitRest

\* some ranges are locked when the scan starts
InitLock ==
    /\ \E c \in { x \in CfgScan : x.store = FullSmallStore }, il \in BOOLEAN :
            cfg = [c EXCEPT !.ignoreLock = il]
    /\ scan = InitScanExec(cfg, FALSE)
    /\ locked \in { s \in SUBSET (1..Len(cfg.kvRanges)) : s # {} }
    /\ InitRest

InitPipe ==
    /\ cfg \in { c \in CfgPipe : PipeCfgOk(c) }
    /\ scan = InitScanExec(cfg, FALSE)
    /\ locked = {}
    /\ InitRest

\* index entries that share the indexed value: the key of the value followed
\* by one byte of the row's handle, and the bare key (a unique index entry)
EntryKeys ==
    << RowKey(BaseHandle), Append(RowKey(BaseHandle), 1), Append(RowKey(BaseHandle), 2),
       RowKey(BaseHandle + 1), Append(RowKey(BaseHandle + 1), 1) >>

EntryStores ==
    { SelectSeq(EntryKeys, LAMBDA k : k \in ks) : ks \in SUBSET KeySet(EntryKeys) }

\* a point range alone, followed by a point range, followed by a wider range
EntryRangeLists ==
    { <<Range(BaseHandle, BaseHandle + 1)>>,
      <<Range(BaseHandle, BaseHandle + 1), Range(BaseHandle + 1, BaseHandle + 2)>>,
      <<Range(BaseHandle, BaseHandle + 1), Range(BaseHandle + 1, BaseHandle + 3)>> }

CfgIndex ==
    { [BaseCfg(store, OrderedForScan(l, desc)) EXCEPT
          !.Desc = desc, !.leaf = "index", !.unique = u] :
        store \in EntryStores, l \in EntryRangeLists, desc \in BOOLEAN, u \in BOOLEAN }

\* more entries of one indexed value than one batch holds, in a point range
ManyEntries == [j \in 1..(scanLimit + 2) |-> Append(RowKey(BaseHandle), j - 1)]

CfgManyEntries ==
    { [BaseCfg(ManyEntries, <<Range(BaseHandle, BaseHandle + 1)>>) EXCEPT
          !.Desc = desc, !.leaf = "index"] : desc \in BOOLEAN }

InitIndex ==
    /\ cfg \in CfgIndex \cup CfgManyEntries
    /\ scan = InitScanExec(cfg, FALSE)
    /\ locked = {}
    /\ InitRest

Init == InitScan \/ InitBig \/ InitFault \/ InitLock \/ InitPipe \/ InitIndex

----------------------------------------------------------------------------
(* The calls of the driver *)

\* the executors as a call finds them; passRan is about the call to come
Pipeline == [scan |-> [scan EXCEPT !.passRan = FALSE], lim |-> lim, topn |-> topn]

\* one Next() on the root executor
NextCall ==
    /\ ~panicked
    /\ Len(out) < MaxOut
    /\ \E r \in {rootNext(Pipeline)} :
        /\ scan' = r.p.scan
        /\ lim' = r.p.lim
        /\ topn' = r.p.topn
        /\ ret' = [called |-> TRUE, row |-> r.row, err |-> r.err, ctxDone |-> cancelled]
        /\ out' = IF r.row # Nil THEN Append(out, r.row) ELSE out
        /\ hist' = [nones |-> IF r.row = Nil /\ r.err = NoErr
                              THEN Min(hist.nones + 1, 2) ELSE hist.nones,
                    refillErr |-> hist.refillErr \/ r.err \in {ErrStorage, ErrDecode},
                    sinceReset |-> IF r.row # Nil /\ scan.counts # Nil
                                   THEN hist.sinceReset + 1 ELSE hist.sinceReset,
                    lockErrs |-> IF r.err = ErrLocked
                                 THEN Min(hist.lockErrs + 1, 2) ELSE hist.lockErrs,
                    lockLate |-> hist.lockLate \/ (out # <<>> /\ r.p.scan.passRan)]
    /\ UNCHANGED <<cfg, locked, panicked, cancelled, pp>>

\* one ResetCounts() on the root executor, which reaches the leaf
ResetCountsCall ==
    /\ ~panicked
    /\ IF scan.counts = Nil THEN UNCHANGED <<scan, panicked, hist>>
       ELSE IF resetCountsPanics(scan)
       THEN /\ scan' = [scan EXCEPT !.start = scan.rangeCursor]
            /\ panicked' = TRUE
            /\ UNCHANGED hist
       ELSE /\ scan' = resetCounts(scan)
            /\ hist' = [hist EXCEPT !.sinceReset = 0]
            /\ UNCHANGED panicked
    /\ UNCHANGED <<cfg, lim, topn, locked, ret, out, cancelled, pp>>

\* another transaction resolves the lock on one range
ResolveLock ==
    /\ \E i \in locked : locked' = locked \ {i}
    /\ UNCHANGED <<cfg, scan, lim, topn, panicked, ret, out, hist, cancelled, pp>>

\* the caller cancels the context it passes to Next()
CancelCtx ==
    /\ ~cancelled
    /\ cancelled' = TRUE
    /\ UNCHANGED <<cfg, scan, lim, topn, locked, panicked, ret, out, hist, pp>>

Next == NextCall \/ ResetCountsCall \/ ResolveLock \/ CancelCtx

Spec == Init /\ [][Next]_vars

----------------------------------------------------------------------------
(* Index scans over keys that are, or sort next to, keys of zero bytes     *)
(* only.  cutIndexKeyNew does not look at a key's prefix, so an index scan *)
(* decodes whatever keys the reader finds in its ranges.                   *)

\* the keys the stores are made of, ascending
ZeroKeys == << <<0>>, <<0, 0>>, <<0, 1>>, <<1>> >>

ZeroStores ==
    { SelectSeq(ZeroKeys, LAMBDA k : k \in ks) : ks \in SUBSET KeySet(ZeroKeys) }

RawRange(a, b) == [StartKey |-> a, EndKey |-> b]

ZeroRangeLists ==
    { <<RawRange(<<0>>, <<2>>)>>,
      <<RawRange(<<0>>, <<1>>)>>,
      <<RawRange(<<0, 1>>, <<2>>)>>,
      <<RawRange(<<0>>, <<0, 1>>), RawRange(<<1>>, <<2>>)>> }

CfgZero ==
    { [BaseCfg(store, OrderedForScan(l, desc)) EXCEPT
          !.Desc = desc, !.leaf = "index", !.unique = u] :
        store \in ZeroStores, l \in ZeroRangeLists, desc \in BOOLEAN, u \in BOOLEAN }

\* a counts vector is tried with the forward scans only
InitZero ==
    /\ cfg \in CfgZero
    /\ \E wc \in BOOLEAN : ~(wc /\ cfg.Desc) /\ scan = InitScanExec(cfg, wc)
    /\ locked \in SUBSET {1}
    /\ InitRest

SpecZero == InitZero /\ [][Next]_vars

----------------------------------------------------------------------------
(* prefixPrev on its own: keys of up to MaxKeyLen bytes over ByteSamples *)

SampleKeys == UNION { [1..n -> ByteSamples] : n \in 0..MaxKeyLen }

InitPrefix ==
    /\ cfg = BaseCfg(<<>>, <<Range(BaseHandle, BaseHandle + 1)>>)
    /\ scan = InitScanExec(cfg, FALSE)
    /\ locked = {}
    /\ lim = [cursor |-> 0]
    /\ topn = [heap |-> <<>>, cursor |-> 0, executed |-> FALSE]
    /\ panicked = FALSE
    /\ ret = [called |-> FALSE, row |-> Nil, err |-> NoErr, ctxDone |-> FALSE]
    /\ out = <<>>
    /\ hist = [nones |-> 0, refillErr |-> FALSE, sinceReset |-> 0, lockErrs |-> 0,
               lockLate |-> FALSE]
    /\ cancelled = FALSE
    /\ \E key \in SampleKeys : pp = [k |-> key, arg |-> key, res |-> Nil, called |-> FALSE]

\* one call prefixPrev(pp.k)
PrefixPrevCall ==
    /\ ~pp.called
    /\ \E r \in {prefixPrevCall(pp.arg)} :
          pp' = [k |-> pp.k, arg |-> r.arg, res |-> r.res, called |-> TRUE]
    /\ UNCHANGED <<cfg, scan, lim, topn, locked, panicked, ret, out, hist, cancelled>>

NextPrefix == PrefixPrevCall

SpecPrefix == InitPrefix /\ [][NextPrefix]_vars


----------------------------------------------------------------------------
(* What the claims are stated over *)

\* the last Next() returned (nil, nil)
ReturnedNone == ret.called /\ ret.row = Nil /\ ret.err = NoErr

\* the request is a bare table scan whose reader and decoder never fail
PlainTableScan ==
    cfg.leaf = "table" /\ cfg.chain = <<"scan">> /\ cfg.bad = {} /\ cfg.ioErr = {}

InSomeRange(k) ==
    \E i \in 1..Len(kvRanges) : InRange(k, kvRanges[i].StartKey, kvRanges[i].EndKey)

\* the stored keys that lie in the union of the ranges, ascending
StoredInRanges == SelectSeq(cfg.store, InSomeRange)

\* the pipeline as constructed
InitialPipeline ==
    [scan |-> InitScanExec(cfg, FALSE), lim |-> [cursor |-> 0],
     topn |-> [heap |-> <<>>, cursor |-> 0, executed |-> FALSE]]

\* the rows the leaf alone returns until it returns none or fails
RECURSIVE drainLeaf(_, _)
drainLeaf(p, acc) ==
    LET Pulled(r) == IF r.err # NoErr \/ r.row = Nil THEN acc
                     ELSE drainLeaf(r.p, Append(acc, r.row))
    IN  Pulled(leafNext(p))

LeafRows == drainLeaf(InitialPipeline, <<>>)

\* the rows the source of the limit / top-N returns until it returns none
RECURSIVE drainSrc(_, _)
drainSrc(p, acc) ==
    LET Pulled(r) == IF r.err # NoErr \/ r.row = Nil THEN acc
                     ELSE drainSrc(r.p, Append(acc, r.row))
    IN  Pulled(srcNext(p))

SourceRows == drainSrc(InitialPipeline, <<>>)

\* every condition evaluates to a value that is neither NULL nor zero
Passes(row) ==
    \A i \in 1..Len(cfg.conditions) :
        ColVal(row, cfg.conditions[i]) # NullDatum /\ ColVal(row, cfg.conditions[i]) # 0

CountKey(rows, d) == Cardinality({ i \in 1..Len(rows) : SortKey(rows[i]) = d })

\* d sorts strictly before e under the top-N's order
DatumBefore(d, e) == IF cfg.orderDesc THEN d > e ELSE d < e

\* how many rows sort strictly before key d
CountBefore(rows, d) ==
    Cardinality({ i \in 1..Len(rows) : DatumBefore(SortKey(rows[i]), d) })

Max(a, b) == IF a >= b THEN a ELSE b

\* the index in kvRanges, counted from 0, of the range a stored key was read
\* from; the ranges do not overlap
RangeOf(k) ==
    (CHOOSE i \in 1..Len(kvRanges) :
        InRange(k, kvRanges[i].StartKey, kvRanges[i].EndKey)) - 1

\* the ranges in the order of the request: sorted ascending
RequestRanges == IF Desc THEN Reverse(kvRanges) ELSE kvRanges

\* the position in the request, counted from 0, of the range the scan holds
\* at index i
RequestIndex(i) == IF Desc THEN Len(kvRanges) - 1 - i ELSE i

\* rows in the order the scan's direction asks for
ScanOrder(rows) == IF Desc THEN Reverse(rows) ELSE rows

\* row j of the buffer was read from a range between start and rangeCursor
RowInWindow(j) ==
    /\ scan.start <= RangeOf(scan.rows[j])
    /\ RangeOf(scan.rows[j]) <= scan.rangeCursor

----------------------------------------------------------------------------
(* The claims *)

\* C1: an ascending TableScan returns exactly the stored rows whose keys lie
\* in the union of its ranges, each once, in ascending key order: what it has
\* returned is always a prefix of that sequence, and all of it once Next()
\* has returned none -- also across 128-row batches and mixed point ranges.
C1_RangeCoverageAsc ==
    (PlainTableScan /\ ~Desc) =>
        /\ IsPrefixOf(out, StoredInRanges)
        /\ ReturnedNone => out = StoredInRanges

C1_Witness ==
    /\ PlainTableScan /\ ~Desc /\ ReturnedNone
    /\ Len(out) > scanLimit
    /\ \E i \in 1..Len(kvRanges) : IsPoint(kvRanges[i])
    /\ \E i \in 1..Len(kvRanges) : ~IsPoint(kvRanges[i])

\* C2: a descending TableScan of one non-point range returns every stored
\* row of the range exactly once in descending key order, also when the range
\* holds more rows than one batch.
C2_DescScanComplete ==
    (PlainTableScan /\ Desc /\ Len(kvRanges) = 1 /\ ~IsPoint(kvRanges[1])
        /\ ReturnedNone)
    => out = Reverse(StoredInRanges)

\* C3: once Next() on the root operator has returned none, no later Next()
\* returns a row.
C3_EndOfStreamSticky == hist.nones > 0 => ret.row = Nil

C3_Witness ==
    /\ hist.nones = 2
    /\ cfg.chain = <<"limit", "selection", "scan">>
    /\ out # <<>>
    /\ Len(out) < cfg.limit

\* C4: Limit(N) returns exactly the first min(N, |source|) rows of its source,
\* in source order.
C4_LimitTakesN ==
    cfg.chain[1] = "limit" =>
        /\ IsPrefixOf(out, Take(SourceRows, cfg.limit))
        /\ ReturnedNone => out = Take(SourceRows, cfg.limit)

C4_Witness ==
    /\ cfg.chain[1] = "limit" /\ ReturnedNone
    /\ cfg.limit >= 1
    /\ Len(out) = cfg.limit
    /\ Len(SourceRows) > cfg.limit

\* C5: Selection returns exactly the source rows, in source order, for which
\* every condition evaluates to a value that is neither NULL nor zero.
C5_SelectionExact ==
    cfg.chain[1] = "selection" =>
        /\ IsPrefixOf(out, SelectSeq(LeafRows, Passes))
        /\ ReturnedNone => out = SelectSeq(LeafRows, Passes)

C5_Witness ==
    /\ cfg.chain[1] = "selection" /\ ReturnedNone
    /\ Len(cfg.conditions) = 2
    /\ out # <<>>
    /\ \E i \in 1..Len(LeafRows) : ColVal(LeafRows[i], 1) = NullDatum
    /\ \E i \in 1..Len(LeafRows) :
          ColVal(LeafRows[i], 1) > 0 /\ ColVal(LeafRows[i], 2) = 0

\* C6: TopN(K) returns min(K, |source|) rows sorted by the ordering key; the
\* multiset of their keys is that of the first K source rows in sorted order,
\* and no returned row has K or more source rows strictly before it.
C6_TopNEquivalence ==
    cfg.chain[1] = "topN" =>
        /\ \A i \in 1..Len(out) : \A j \in (i + 1)..Len(out) :
              ~SorterLess(out[j], out[i])
        /\ \A i \in 1..Len(out) : CountBefore(SourceRows, SortKey(out[i])) < cfg.topK
        /\ ReturnedNone =>
              /\ Len(out) = Min(cfg.topK, Len(SourceRows))
              /\ \A d \in Datums :
                    CountKey(out, d) =
                        Min(CountKey(SourceRows, d),
                            Max(0, cfg.topK - CountBefore(SourceRows, d)))

C6_Witness ==
    /\ cfg.chain[1] = "topN" /\ ReturnedNone
    /\ cfg.topK = 2 /\ Len(out) = 2 /\ Len(SourceRows) > 2
    /\ SortKey(SourceRows[1]) = SortKey(SourceRows[3])
    /\ DatumBefore(SortKey(SourceRows[2]), SortKey(SourceRows[1]))

\* C7: the entries of Counts() add up to the number of rows Next() returned
\* since the last ResetCounts().
C7_CountsFidelity ==
    (scan.counts # Nil /\ ~panicked /\ countsBounds(scan)[2] <= Len(scan.counts))
    => Sum(Counts(scan)) = hist.sinceReset

\* C8: from the first row on, and as long as no call fails, the key Cursor()
\* returns after a Next() is not below (forward scan) or above (descending
\* scan) the key it returned before that Next().
C8_CursorMonotone ==
    [][(cfg.chain = <<"scan">> /\ out # <<>> /\ ~hist.refillErr /\ ret'.err = NoErr)
        => IF Desc THEN KeyLE(scanCursor(scan)', scanCursor(scan))
           ELSE KeyLE(scanCursor(scan), scanCursor(scan)')]_vars

\* C9: while a range of the scan is locked and locks are not ignored, every
\* Next() so far has returned the lock error and no row, no reader call has
\* been issued, and rangeCursor, seekKey and the row buffer are as constructed.
C9_LockConflict ==
    (cfg.chain = <<"scan">> /\ ~ignoreLock /\ locked # {}) =>
        /\ out = <<>>
        /\ ~scan.io
        /\ scan.rangeCursor = 0 /\ scan.seekKey = Nil /\ scan.rows = <<>>
        /\ ret.called => (ret.err = ErrLocked /\ ret.row = Nil)

C9_Witness ==
    /\ cfg.chain = <<"scan">> /\ ~ignoreLock
    /\ Cardinality(locked) = 1 /\ Len(kvRanges) > 1 /\ ~(1 \in locked)
    /\ GetHit(kvRanges[1].StartKey)
    /\ ret.err = ErrLocked
    /\ hist.lockErrs = 2

\* C10: once a Next() of a scan has failed in a refill, the row buffer holds
\* no unread row and no later Next() returns a row.
C10_ErrorsShortCircuit ==
    /\ hist.refillErr => ret.row = Nil
    /\ ret.err \in {ErrStorage, ErrDecode} => scan.rowCursor >= Len(scan.rows)

\* C11: a Next() called with a cancelled context returns the Cancelled error
\* and no row.
C11_Cancellation ==
    (ret.called /\ ret.ctxDone) => (ret.err = ErrCancelled /\ ret.row = Nil)

\* C12: after prefixPrev(k) the caller's k is as it was; for a non-empty k
\* whose last byte is above zero the result has k's length, is below k, and
\* PrefixNext of it is at most k; for the empty key and for a key of zero
\* bytes only the result is nil.
C12_PrefixPrevRoundTrip ==
    pp.called =>
        /\ pp.arg = pp.k
        /\ (Len(pp.k) > 0 /\ pp.k[Len(pp.k)] > 0) =>
              /\ pp.res # Nil
              /\ Len(pp.res) = Len(pp.k)
              /\ KeyLess(pp.res, pp.k)
              /\ KeyLE(PrefixNext(pp.res), pp.k)
        /\ (\A i \in 1..Len(pp.k) : pp.k[i] = 0) => pp.res = Nil

C12_Witness ==
    /\ pp.called
    /\ Len(pp.k) = MaxKeyLen
    /\ \A i \in 1..Len(pp.k) : pp.k[i] = 0
    /\ pp.res = Nil

\* C13 as stated: the pass over the ranges that calls CheckRangeLock runs at
\* most once per scan, also after a Next() that returned the lock error, and
\* never when locks are ignored.
C13_LockCheckOnce ==
    /\ scan.lockPasses <= 1
    /\ ignoreLock => scan.lockPasses = 0
    /\ ~hist.lockLate

\* C13 amended: the pass that finds no lock runs at most once, always before
\* the first row, and is never run again; a pass that returned the lock error
\* is run again by the next Next(); with ignoreLock no pass runs.
C13_LockCheckOnceUnlessLocked ==
    /\ scan.lockOk <= 1
    /\ scan.lockChecked <=> scan.lockOk = 1
    /\ ignoreLock => scan.lockPasses = 0
    /\ ~hist.lockLate
    /\ (out # <<>> /\ ~ignoreLock) => scan.lockChecked
    /\ (ret.called /\ ret.err = ErrLocked) => (scan.passRan /\ ~scan.lockChecked)

C13_Witness ==
    /\ ~ignoreLock /\ hist.lockErrs = 2 /\ scan.lockPasses = 2
    /\ locked = {} /\ scan.lockOk = 1
    /\ Len(out) >= 2

\* C14 as stated: between calls every row the buffer e.rows holds was read
\* from a range whose index lies between start and rangeCursor.
C14_BufferRange ==
    ~panicked => \A j \in 1..Len(scan.rows) : RowInWindow(j)

\* C14 amended: between calls every buffered row that Next() has not returned
\* yet was read from a range whose index lies between start and rangeCursor.
C14_UnreadBufferRange ==
    ~panicked => \A j \in (scan.rowCursor + 1)..Len(scan.rows) : RowInWindow(j)

C14_Witness ==
    /\ ~panicked /\ scan.counts # Nil
    /\ scan.start >= 1 /\ scan.start = scan.rangeCursor
    /\ scan.rowCursor >= 1 /\ scan.rowCursor < Len(scan.rows)
    /\ hist.sinceReset = 0

C16_SeekKeyMonotone ==
    [][(/\ scan'.rangeCursor = scan.rangeCursor
        /\ scan.rangeCursor < Len(kvRanges)
        /\ ~UsesPointPath(kvRanges[scan.rangeCursor + 1]))
       => /\ (scan.seekKey # Nil /\ scan'.seekKey # Nil /\ scan'.seekKey # scan.seekKey)
               => IF Desc THEN KeyLess(scan'.seekKey, scan.seekKey)
                  ELSE KeyLess(scan.seekKey, scan'.seekKey)
          /\ scan.seekKey # Nil => scan'.seekKey # Nil
          /\ (scan'.rows # <<>> /\ RangeOf(scan'.rows[1]) = scan'.rangeCursor)
               => scan'.seekKey # Nil]_vars

\* C17: between the Next() calls of a forward TableScan the key Cursor()
\* returns is above the key of every row returned so far and not above the
\* key of any row still to be returned (the stored rows of the ranges that
\* have not been returned yet).
C17_CursorResume ==
    (PlainTableScan /\ ~Desc /\ locked = {}) =>
        /\ \A i \in 1..Len(out) : KeyLess(out[i], scanCursor(scan))
        /\ \A j \in (Len(out) + 1)..Len(StoredInRanges) :
              KeyLE(scanCursor(scan), StoredInRanges[j])

\* C18: an IndexScan reads a range with Get exactly when the index is unique
\* and the range is a point, and with Scan / ReverseScan otherwise; on a
\* non-unique index Next() returns every stored entry of a point range
\* [k, PrefixNext(k)), each once, before the entries of the next range.
C18_IndexPointFastPath ==
    (cfg.leaf = "index" /\ cfg.chain = <<"scan">>) =>
        /\ \A i \in scan.getAt : isUnique /\ IsPoint(kvRanges[i + 1])
        /\ \A i \in scan.scanAt : ~(isUnique /\ IsPoint(kvRanges[i + 1]))
        /\ (~isUnique /\ cfg.bad = {} /\ cfg.ioErr = {}) =>
              /\ IsPrefixOf(out, ScanOrder(StoredInRanges))
              /\ ReturnedNone => out = ScanOrder(StoredInRanges)

\* C19: with no failing read or decode, a scan returns at most one row per
\* key stored in its ranges before Next() returns none: the rows returned
\* never outnumber the stored keys of the ranges.
C19_ScanTerminates ==
    (cfg.chain = <<"scan">> /\ cfg.bad = {} /\ cfg.ioErr = {})
    => Len(out) <= Len(StoredInRanges)

\* C20: for a scan with one counts entry per range, start and rangeCursor
\* stay within 0 <= start <= rangeCursor <= len(counts), the slice Counts()
\* takes ends within the vector, and no ResetCounts() indexes past its end.
C20_CountsBoundsSafe ==
    scan.counts # Nil =>
        /\ ~panicked
        /\ 0 <= scan.start /\ scan.start <= scan.rangeCursor
        /\ scan.rangeCursor <= Len(scan.counts)
        /\ countsBounds(scan)[2] <= Len(scan.counts)
        /\ scan.seekKey # Nil => scan.rangeCursor < Len(kvRanges)

============================================================================
